---- MODULE Spec2Model ----
(***************************************************************************)
(* Stack Void: the placement state machine, the rubble pool and the        *)
(* power-up system (game.js, powerups.js, state.js, graphics.js, ui.js,    *)
(* main-vr.js, admob.js).                                                  *)
(*                                                                         *)
(* Numbers.  The program computes with JavaScript doubles.  The model uses *)
(* exact fixed-point integers: lengths and positions in 1/1000 of a world  *)
(* unit (INITIAL_SIZE = 4 is 4000, the miss bound 0.05 is 50), speeds in   *)
(* 1/1000 (0.18 is 180), the slow-motion duration in seconds.              *)
(*                                                                         *)
(* Time.  animate() runs once per frame.  One Animate step of the model    *)
(* stands for a burst of consecutive frames with no other event between    *)
(* them, lasting BurstSeconds: it moves the active block to a position of  *)
(* the input set, lets the grace period of the last spawn run out, and     *)
(* lets a chosen set of rubble slots drop below the depth threshold.       *)
(***************************************************************************)
EXTENDS Integers, Sequences, FiniteSets, TLC

VARIABLES state, ad

vars == <<state, ad>>

\* null in an inventory slot
NULL == "null"

\* null in state.activeBlock (a record, so that it compares with a block)
NoBlock == [null |-> TRUE]

----------------------------------------------------------------------------
(* Bounds of the model *)

\* Size of the rubble pool.  The program's CONFIG.MAX_RUBBLE is 80; the code
\* treats the capacity uniformly (loops 0..MAX_RUBBLE-1), and the model scales
\* it down so that the pool can be exhausted.
MAX_RUBBLE == 2

\* Longest stack (foundation included) the player builds under Spec.
MaxStack == 4

\* Longest stack the player builds under SpecContinue.
MaxNetStack == 3

\* Longest stack the player builds under SpecStreak.
MaxStreakStack == 16

\* Longest stack the player builds under SpecMenu.
MaxMenuStack == 11

\* Longest stack the player builds under SpecFresh.
MaxFreshStack == 4

\* Longest stack the player builds under SpecEffects.
MaxEffectStack == 8

\* Longest stack the player builds under SpecSuper.
MaxSuperStack == 9

\* Longest stack the player builds under SpecAd.
MaxAdStack == 2

\* Most rewarded-continue requests the player has pending at a time.
MaxPending == 2

\* Game time of one burst of frames, in seconds.
BurstSeconds == 5

\* The stored best score and best streak of a returning player.
SeasonedBest == 50

----------------------------------------------------------------------------
(* config.js *)

DIFFICULTIES ==
  [easy   |-> [initial |-> 120, inc |-> 3,  max |-> 350, mercy |-> 8, threshold |-> 450],
   medium |-> [initial |-> 180, inc |-> 6,  max |-> 500, mercy |-> 5, threshold |-> 350],
   hard   |-> [initial |-> 250, inc |-> 12, max |-> 700, mercy |-> 2, threshold |-> 200]]

DifficultyNames == {"easy", "medium", "hard"}

BLOCK_HEIGHT == 1000

INITIAL_SIZE == 4000

\* placeBlock: the threshold past the mercy blocks (0.15)
STANDARD_THRESHOLD == 150

\* placeBlock: overlap <= 0.05 is a miss
MISS_OVERLAP == 50

\* animate: the active block bounces at +-13
BOUNCE_LIMIT == 13000

\* spawnNewBlock: the block starts at +-12
SPAWN_OFFSET == 12000

PowerUpTypes == <<"slowMo", "safetyNet", "superSize", "resetSize">>

----------------------------------------------------------------------------
(* helpers *)

Abs(n) == IF n < 0 THEN -n ELSE n

Sign(n) == IF n > 0 THEN 1 ELSE IF n < 0 THEN -1 ELSE 0

Min(a, b) == IF a < b THEN a ELSE b

Last(seq) == seq[Len(seq)]

\* mesh.position[axis]
pos(b, axis) == IF axis = "x" THEN b.x ELSE b.z

\* mesh.geometry.parameters: width lies along x, depth along z
extent(b, axis) == IF axis = "x" THEN b.width ELSE b.depth

otherAxis(axis) == IF axis = "x" THEN "z" ELSE "x"

\* the 1.3 factor of the Super Size power-up, rounded down to the grid
times13(n) == (n * 13) \div 10

----------------------------------------------------------------------------
(* graphics.js *)

\* game.js reads scene and rubbleInstances of graphics.js, which the initEngine
\* of graphics.js assigns before any handler is installed: every handler of
\* the model runs with a scene.  (The initEngine of graphics-vr.js, which
\* main-vr.js calls, builds the pool and the foundation the same way but
\* assigns its own scene; with the scene of graphics.js left null, startGame
\* throws in createFoundation and no game is played.)
scene == TRUE

rubbleInstances == TRUE

\* The slot data the model keeps: the active flag and the scale along the
\* axis of the cut (the extent of the fragment).
initSlot == [isActive |-> FALSE, size |-> BLOCK_HEIGHT]

createFoundation(s) ==
  [s EXCEPT !.stack = Append(@,
     [x |-> 0, y |-> BLOCK_HEIGHT \div 2, z |-> 0,
      width |-> INITIAL_SIZE, depth |-> INITIAL_SIZE,
      baseWidth |-> INITIAL_SIZE, baseDepth |-> INITIAL_SIZE])]

\* the part of initEngine that touches the game state: the pool, the foundation
initEngine(s) ==
  createFoundation(
    [s EXCEPT !.rubbleFree = [i \in 1..MAX_RUBBLE |-> i - 1],
              !.rubbleActive = <<>>,
              !.rubbleData = [i \in 0..(MAX_RUBBLE - 1) |-> initSlot]])

----------------------------------------------------------------------------
(* state.js *)

noPowerUps ==
  [slowMo    |-> [active |-> FALSE, duration |-> 0],
   safetyNet |-> [active |-> FALSE, uses |-> 0],
   superSize |-> [active |-> FALSE, count |-> 0]]

\* The state object as state.js builds it.  graceOver stands for
\* performance.now() - lastSpawnTime >= 2000 (lastSpawnTime starts at 0, which
\* placeBlock treats as "no grace period").  continueUsed is the field
\* startGame writes; it does not exist before the first startGame.
initialState ==
  [status |-> "LOADING",
   score |-> 0, bestScore |-> 0, bestStreak |-> 0, combo |-> 0, maxSessionCombo |-> 0,
   difficulty |-> "medium",
   powerUps |-> <<NULL, NULL, NULL>>,
   activePowerUps |-> noPowerUps,
   lastComboMilestone |-> 0,
   continuesUsed |-> 0,
   continueUsed |-> "undefined",
   axis |-> "x", direction |-> 1, speed |-> 180,
   stack |-> <<>>, activeBlock |-> NoBlock,
   graceOver |-> TRUE,
   rubbleData |-> [i \in {} |-> initSlot], rubbleFree |-> <<>>, rubbleActive |-> <<>>]

\* initializeState: the difficulty comes from storage
initializeState(s, storedDifficulty) == [s EXCEPT !.difficulty = storedDifficulty]

\* resetGameState (exported by state.js; no handler calls it)
resetGameState(s) ==
  [s EXCEPT !.score = 0, !.combo = 0, !.maxSessionCombo = 0,
            !.stack = <<>>,
            !.activeBlock = NoBlock,
            !.rubbleActive = <<>>,
            !.powerUps = <<NULL, NULL, NULL>>,
            !.activePowerUps = noPowerUps,
            !.lastComboMilestone = 0,
            !.continuesUsed = 0]

----------------------------------------------------------------------------
(* game.js *)

\* rnd: Math.random() > 0.5
\* A spawnNewBlock that starts every block from the same side.
spawnNewBlockOneSide(s, rnd) ==
  LET axis == otherAxis(s.axis)
  IN IF Len(s.stack) = 0
     THEN [s EXCEPT !.axis = axis]
     ELSE
     LET prev == Last(s.stack)
         baseWidth == IF prev.baseWidth # 0 THEN prev.baseWidth ELSE prev.width
         baseDepth == IF prev.baseDepth # 0 THEN prev.baseDepth ELSE prev.depth
         super == s.activePowerUps.superSize.active /\ s.activePowerUps.superSize.count > 0
         mesh == [x |-> IF axis = "x" THEN SPAWN_OFFSET ELSE prev.x,
                  y |-> Len(s.stack) * BLOCK_HEIGHT + BLOCK_HEIGHT \div 2,
                  z |-> IF axis = "z" THEN SPAWN_OFFSET ELSE prev.z,
                  width |-> IF super THEN times13(baseWidth) ELSE baseWidth,
                  depth |-> IF super THEN times13(baseDepth) ELSE baseDepth,
                  baseWidth |-> baseWidth, baseDepth |-> baseDepth]
     IN [s EXCEPT !.axis = axis,
                  !.direction = IF rnd THEN -1 ELSE 1,
                  !.activeBlock = mesh,
                  !.graceOver = FALSE]

spawnNewBlock(s, rnd) ==
  LET axis == otherAxis(s.axis)
  IN IF Len(s.stack) = 0
     THEN [s EXCEPT !.axis = axis]   \* prev is undefined: reading it throws
     ELSE
     LET prev == Last(s.stack)
         baseWidth == IF prev.baseWidth # 0 THEN prev.baseWidth ELSE prev.width
         baseDepth == IF prev.baseDepth # 0 THEN prev.baseDepth ELSE prev.depth
         super == s.activePowerUps.superSize.active /\ s.activePowerUps.superSize.count > 0
         offset == IF rnd THEN SPAWN_OFFSET ELSE -SPAWN_OFFSET
         mesh == [x |-> IF axis = "x" THEN offset ELSE prev.x,
                  y |-> Len(s.stack) * BLOCK_HEIGHT + BLOCK_HEIGHT \div 2,
                  z |-> IF axis = "z" THEN offset ELSE prev.z,
                  width |-> IF super THEN times13(baseWidth) ELSE baseWidth,
                  depth |-> IF super THEN times13(baseDepth) ELSE baseDepth,
                  baseWidth |-> baseWidth, baseDepth |-> baseDepth]
     IN [s EXCEPT !.axis = axis,
                  !.direction = IF offset > 0 THEN -1 ELSE 1,
                  !.activeBlock = mesh,
                  !.graceOver = FALSE]

\* A spawnRubble that marks the slot active without listing it in rubbleActive.
spawnRubbleUnlisted(s, active, prev, axis, delta, overlap) ==
  LET n == Len(s.rubbleFree)
  IN IF n = 0 THEN s
     ELSE LET idx == s.rubbleFree[n]
          IN [s EXCEPT !.rubbleFree = SubSeq(@, 1, n - 1),
                       !.rubbleData[idx] =
                          [isActive |-> TRUE, size |-> extent(active, axis) - overlap]]

\* A spawnRubble that, finding no free slot, takes over the oldest falling one.
spawnRubbleRecycling(s, active, prev, axis, delta, overlap) ==
  LET rSize == extent(active, axis) - overlap
      n == Len(s.rubbleFree)
  IN IF n = 0
     THEN IF Len(s.rubbleActive) = 0 THEN s
          ELSE LET idx == s.rubbleActive[1]
               IN [s EXCEPT !.rubbleData[idx] = [isActive |-> TRUE, size |-> rSize],
                            !.rubbleActive = Append(Tail(@), idx)]
     ELSE LET idx == s.rubbleFree[n]
          IN [s EXCEPT !.rubbleFree = SubSeq(@, 1, n - 1),
                       !.rubbleData[idx] = [isActive |-> TRUE, size |-> rSize],
                       !.rubbleActive = Append(@, idx)]

\* Only the pool is written; the fragment's position and spin are not kept.
spawnRubble(s, active, prev, axis, delta, overlap) ==
  LET size == extent(active, axis)
      rSize == size - overlap
      n == Len(s.rubbleFree)
  IN IF n = 0 THEN s
     ELSE LET idx == s.rubbleFree[n]
          IN [s EXCEPT !.rubbleFree = SubSeq(@, 1, n - 1),
                       !.rubbleData[idx] = [isActive |-> TRUE, size |-> rSize],
                       !.rubbleActive = Append(@, idx)]

----------------------------------------------------------------------------
(* powerups.js *)

\* findIndex(slot => slot === null): the lowest empty slot, 0 when there is none
\* (slots are numbered 1..3 here, 0..2 in the program)
emptySlot(powerUps) ==
  IF \E i \in 1..3 : powerUps[i] = NULL
  THEN CHOOSE i \in 1..3 : powerUps[i] = NULL /\ \A j \in 1..(i - 1) : powerUps[j] # NULL
  ELSE 0

\* An awardPowerUp that writes the highest empty slot.
awardPowerUpHighest(s, rndType) ==
  IF \E i \in 1..3 : s.powerUps[i] = NULL
  THEN LET e == CHOOSE i \in 1..3 :
                  s.powerUps[i] = NULL /\ \A j \in (i + 1)..3 : s.powerUps[j] # NULL
       IN [s EXCEPT !.powerUps[e] = PowerUpTypes[rndType]]
  ELSE s

\* rndType: Math.floor(Math.random() * 4) + 1
awardPowerUp(s, rndType) ==
  LET e == emptySlot(s.powerUps)
  IN IF e = 0 THEN s
     ELSE [s EXCEPT !.powerUps[e] = PowerUpTypes[rndType]]

updatePowerUpTimers(s, dt) ==
  LET slowMo == s.activePowerUps.slowMo
  IN IF slowMo.active /\ slowMo.duration > 0
     THEN IF slowMo.duration - dt <= 0
          THEN [s EXCEPT !.activePowerUps.slowMo = [active |-> FALSE, duration |-> 0]]
          ELSE [s EXCEPT !.activePowerUps.slowMo.duration = @ - dt]
     ELSE s

\* case 'resetSize' of activatePowerUp
resetSize(s) ==
  IF Len(s.stack) > 0
  THEN LET n == Len(s.stack)
           s1 == [s EXCEPT !.stack[n] =
                    [@ EXCEPT !.width = INITIAL_SIZE, !.depth = INITIAL_SIZE,
                              !.x = 0, !.z = 0,
                              !.baseWidth = INITIAL_SIZE, !.baseDepth = INITIAL_SIZE]]
       IN IF s1.activeBlock # NoBlock
          THEN [s1 EXCEPT !.activeBlock =
                  [@ EXCEPT !.width = INITIAL_SIZE, !.depth = INITIAL_SIZE,
                            !.baseWidth = INITIAL_SIZE, !.baseDepth = INITIAL_SIZE,
                            !.z = IF s.axis = "x" THEN 0 ELSE @,
                            !.x = IF s.axis = "x" THEN @ ELSE 0]]
          ELSE s1
  ELSE s

\* An activatePowerUp that acts whatever the status.
activatePowerUpAnyStatus(s, slotIndex) ==
  IF slotIndex \notin 0..2 THEN s
  ELSE
  LET powerUpType == s.powerUps[slotIndex + 1]
  IN IF powerUpType = NULL THEN s
     ELSE LET s1 ==
                CASE powerUpType = "slowMo" ->
                       [s EXCEPT !.activePowerUps.slowMo = [active |-> TRUE, duration |-> 10]]
                  [] powerUpType = "safetyNet" ->
                       [s EXCEPT !.activePowerUps.safetyNet = [active |-> TRUE, uses |-> 1]]
                  [] powerUpType = "superSize" ->
                       [s EXCEPT !.activePowerUps.superSize = [active |-> TRUE, count |-> 2]]
                  [] powerUpType = "resetSize" -> resetSize(s)
                  [] OTHER -> s
          IN [s1 EXCEPT !.powerUps[slotIndex + 1] = NULL]

\* slotIndex: 0..2
activatePowerUp(s, slotIndex) ==
  IF s.status # "PLAYING" THEN s
  ELSE IF slotIndex \notin 0..2 THEN s   \* powerUps[slotIndex] is undefined
  ELSE
  LET powerUpType == s.powerUps[slotIndex + 1]
  IN IF powerUpType = NULL THEN s
     ELSE LET s1 ==
                CASE powerUpType = "slowMo" ->
                       [s EXCEPT !.activePowerUps.slowMo = [active |-> TRUE, duration |-> 10]]
                  [] powerUpType = "safetyNet" ->
                       [s EXCEPT !.activePowerUps.safetyNet = [active |-> TRUE, uses |-> 1]]
                  [] powerUpType = "superSize" ->
                       [s EXCEPT !.activePowerUps.superSize = [active |-> TRUE, count |-> 2]]
                  [] powerUpType = "resetSize" -> resetSize(s)
                  [] OTHER -> s
          IN [s1 EXCEPT !.powerUps[slotIndex + 1] = NULL]

----------------------------------------------------------------------------
(* game.js, continued *)

\* A gameOver that ends the game and leaves the records alone.
gameOverUnrecorded(s) == [s EXCEPT !.status = "GAMEOVER"]

\* A gameOver that records the scores and leaves the status alone.
gameOverIdle(s) ==
  [s EXCEPT !.bestScore = IF s.score > @ THEN s.score ELSE @,
            !.bestStreak = IF s.maxSessionCombo > @ THEN s.maxSessionCombo ELSE @]

gameOver(s) ==
  [s EXCEPT !.status = "GAMEOVER",
            !.bestScore = IF s.score > @ THEN s.score ELSE @,
            !.bestStreak = IF s.maxSessionCombo > @ THEN s.maxSessionCombo ELSE @]

\* A decrement that takes one off the count and leaves the flag alone.
decrementSuperSizeFlagKept(s) ==
  LET superSize == s.activePowerUps.superSize
  IN IF superSize.active /\ superSize.count > 0
     THEN [s EXCEPT !.activePowerUps.superSize.count = @ - 1]
     ELSE s

\* "Decrement Super Size counter", the same code in both branches of placeBlock
decrementSuperSize(s) ==
  LET superSize == s.activePowerUps.superSize
  IN IF superSize.active /\ superSize.count > 0
     THEN [s EXCEPT !.activePowerUps.superSize =
             [active |-> (superSize.count - 1 # 0), count |-> superSize.count - 1]]
     ELSE s

\* A safety-net branch that does not spend a use.
useSafetyNetKept(s, rnd) ==
  spawnNewBlock([s EXCEPT !.combo = 0, !.activeBlock = NoBlock], rnd)

\* the safety-net branch up to its spawnNewBlock call
netCatch(s) ==
  LET uses == s.activePowerUps.safetyNet.uses - 1
  IN [s EXCEPT !.activePowerUps.safetyNet = [active |-> (uses # 0), uses |-> uses],
               !.combo = 0,
               !.activeBlock = NoBlock]

\* placeBlock, the safety-net branch of a miss
useSafetyNet(s, rnd) == spawnNewBlock(netCatch(s), rnd)

\* A perfect placement that leaves the block where it was dropped.
placePerfectUnsnapped(s, prev, axis, rndType) ==
  LET combo == s.combo + 1
      s1 == [s EXCEPT !.combo = combo,
                      !.maxSessionCombo = IF combo > @ THEN combo ELSE @]
      s2 == IF combo >= 5 /\ combo % 5 = 0 /\ combo > s1.lastComboMilestone
            THEN awardPowerUp([s1 EXCEPT !.lastComboMilestone = combo], rndType)
            ELSE s1
  IN decrementSuperSize(s2)

\* A perfect placement that awards at a milestone without recording it.
placePerfectUnmarked(s, prev, axis, rndType) ==
  LET combo == s.combo + 1
      s1 == [s EXCEPT !.activeBlock = IF axis = "x" THEN [@ EXCEPT !.x = prev.x]
                                                     ELSE [@ EXCEPT !.z = prev.z],
                      !.combo = combo,
                      !.maxSessionCombo = IF combo > @ THEN combo ELSE @]
      s2 == IF combo >= 5 /\ combo % 5 = 0 /\ combo > s1.lastComboMilestone
            THEN awardPowerUp(s1, rndType)
            ELSE s1
  IN decrementSuperSize(s2)

\* placeBlock, "Perfect placement": the block is snapped onto the one below
placePerfect(s, prev, axis, rndType) ==
  LET combo == s.combo + 1
      s1 == [s EXCEPT !.activeBlock = IF axis = "x" THEN [@ EXCEPT !.x = prev.x]
                                                     ELSE [@ EXCEPT !.z = prev.z],
                      !.combo = combo,
                      !.maxSessionCombo = IF combo > @ THEN combo ELSE @]
      s2 == IF combo >= 5 /\ combo % 5 = 0 /\ combo > s1.lastComboMilestone
            THEN awardPowerUp([s1 EXCEPT !.lastComboMilestone = combo], rndType)
            ELSE s1
  IN decrementSuperSize(s2)

\* An imperfect placement that sheds the fragment and keeps the full block.
placePartialUncut(s, prev, axis, delta, overlap, other) ==
  LET s1 == spawnRubble([s EXCEPT !.combo = 0], s.activeBlock, prev, axis, delta, overlap)
      centre == pos(prev, axis) + delta \div 2
      s2 == [s1 EXCEPT !.activeBlock =
               IF axis = "x" THEN [@ EXCEPT !.x = centre] ELSE [@ EXCEPT !.z = centre]]
  IN decrementSuperSize(s2)

\* placeBlock, "Imperfect placement - cut block"
placePartial(s, prev, axis, delta, overlap, other) ==
  LET s1 == spawnRubble([s EXCEPT !.combo = 0], s.activeBlock, prev, axis, delta, overlap)
      centre == pos(prev, axis) + delta \div 2
      s2 == [s1 EXCEPT !.activeBlock =
               IF axis = "x"
               THEN [@ EXCEPT !.width = overlap, !.depth = other, !.x = centre,
                              !.baseWidth = overlap, !.baseDepth = other]
               ELSE [@ EXCEPT !.width = other, !.depth = overlap, !.z = centre,
                              !.baseWidth = other, !.baseDepth = overlap]]
  IN decrementSuperSize(s2)

\* A threshold that is the standard one whatever the stack.
mercyThresholdStandard(s) == STANDARD_THRESHOLD

\* placeBlock, "Mercy threshold for early blocks": the threshold in force
mercyThreshold(s) ==
  IF Len(s.stack) <= DIFFICULTIES[s.difficulty].mercy
  THEN DIFFICULTIES[s.difficulty].threshold
  ELSE STANDARD_THRESHOLD

\* A rounding that also forgives a delta of exactly the threshold.
mercyRoundInclusive(delta, threshold) == IF Abs(delta) <= threshold THEN 0 ELSE delta

\* placeBlock: if (Math.abs(delta) < threshold) delta = 0
mercyRound(delta, threshold) == IF Abs(delta) < threshold THEN 0 ELSE delta

\* placeBlock, "Check for complete miss"
isMiss(overlap) == overlap <= MISS_OVERLAP

\* A push that does not score.
stackBlockUnscored(s) ==
  [s EXCEPT !.stack = Append(@, s.activeBlock),
            !.activeBlock = NoBlock,
            !.speed = Min(DIFFICULTIES[s.difficulty].max, @ + DIFFICULTIES[s.difficulty].inc)]

\* placeBlock from "state.stack.push(active)" to its spawnNewBlock call
stackBlock(s) ==
  [s EXCEPT !.stack = Append(@, s.activeBlock),
            !.activeBlock = NoBlock,
            !.score = @ + 1,
            !.speed = Min(DIFFICULTIES[s.difficulty].max, @ + DIFFICULTIES[s.difficulty].inc)]

\* A grace test that never holds a drop back.
graceNever(s) == FALSE

\* placeBlock, "Grace Period": less than 2 seconds since the last spawn
inGracePeriod(s) == ~s.graceOver

\* rndSpawn: Math.random() > 0.5 of the next spawn; rndType: the type awarded
placeBlock(s, rndSpawn, rndType) ==
  IF s.activeBlock = NoBlock THEN s
  ELSE IF inGracePeriod(s) THEN s
  ELSE
  LET active == s.activeBlock
      prev == Last(s.stack)
      diffConfig == DIFFICULTIES[s.difficulty]
      axis == s.axis
      size == extent(active, axis)
      other == extent(active, otherAxis(axis))
      delta == mercyRound(pos(active, axis) - pos(prev, axis), mercyThreshold(s))
      absDelta == Abs(delta)
      overlap == size - absDelta
  IN IF isMiss(overlap)
     THEN IF s.activePowerUps.safetyNet.active /\ s.activePowerUps.safetyNet.uses > 0
          THEN useSafetyNet(s, rndSpawn)
          ELSE gameOver(s)
     ELSE LET s1 == IF delta = 0
                    THEN placePerfect(s, prev, axis, rndType)
                    ELSE placePartial(s, prev, axis, delta, overlap, other)
          IN spawnNewBlock(stackBlock(s1), rndSpawn)

continueGame(s) ==
  [s EXCEPT !.continuesUsed = @ + 1,
            !.status = "PLAYING",
            !.activePowerUps.safetyNet = [active |-> TRUE, uses |-> 1],
            !.activePowerUps.slowMo = [active |-> TRUE, duration |-> 5]]

\* gameContinueWithAd's onRewarded callback, run by n reward handlers in turn
RECURSIVE onRewarded(_, _)
onRewarded(s, n) == IF n <= 0 THEN s ELSE onRewarded(continueGame(s), n - 1)

\* A cleanup that takes the no-scene path: the pool is left as it is.
cleanupStackOnly(s) == [s EXCEPT !.stack = <<>>, !.activeBlock = NoBlock]

cleanup(s) ==
  IF ~scene
  THEN [s EXCEPT !.stack = <<>>, !.activeBlock = NoBlock]
  ELSE LET s1 == [s EXCEPT !.stack = <<>>, !.activeBlock = NoBlock]
       IN IF rubbleInstances /\ DOMAIN s1.rubbleData # {}
          THEN [s1 EXCEPT !.rubbleFree = [i \in 1..MAX_RUBBLE |-> i - 1],
                          !.rubbleActive = <<>>,
                          !.rubbleData = [i \in DOMAIN s1.rubbleData |->
                                            IF i < MAX_RUBBLE
                                            THEN [s1.rubbleData[i] EXCEPT !.isActive = FALSE]
                                            ELSE s1.rubbleData[i]]]
          ELSE s1

\* startGame up to its spawnNewBlock call
newSession(s) ==
  LET d == DIFFICULTIES[s.difficulty]
      s1 == cleanup([s EXCEPT !.continueUsed = "false"])
      s2 == [s1 EXCEPT !.status = "PLAYING",
                       !.score = 0, !.combo = 0, !.maxSessionCombo = 0,
                       !.speed = d.initial,
                       !.axis = "x",
                       !.powerUps = <<NULL, NULL, NULL>>,
                       !.activePowerUps = noPowerUps,
                       !.lastComboMilestone = 0]
  IN createFoundation(s2)

startGame(s, rnd) == spawnNewBlock(newSession(s), rnd)

backToMenu(s) ==
  LET s1 == IF s.status = "GAMEOVER"
            THEN [cleanup(s) EXCEPT !.stack = <<>>, !.activeBlock = NoBlock]
            ELSE s
  IN [s1 EXCEPT !.status = "START"]

\* A resumeGame that resumes a paused session only.
resumeGamePausedOnly(s) ==
  IF s.status # "PAUSED" THEN s
  ELSE [s EXCEPT !.status = "PLAYING"]

resumeGame(s) ==
  IF s.status = "GAMEOVER" THEN s
  ELSE [s EXCEPT !.status = "PLAYING"]

pauseGame(s) ==
  IF s.status # "PLAYING" THEN s
  ELSE [s EXCEPT !.status = "PAUSED"]

----------------------------------------------------------------------------
(* admob.js *)

\* The ad service.  admob: window.admob exists (a device build; it does not in
\* a browser).  rewardedReady is set by prepareRewarded.  preparing: a
\* prepareRewarded call is under way or scheduled.  listeners counts the
\* showRewarded calls whose promise is pending, each with its reward handler
\* and its close handler registered.  outcome records the calls most recently
\* resolved together: how many, the value they resolved to, and how many
\* times onRewarded ran for them.
noOutcome == [requests |-> 0, watched |-> FALSE, rewards |-> 0]

browserAd ==
  [admob |-> FALSE, rewardedReady |-> FALSE, preparing |-> FALSE,
   listeners |-> 0, outcome |-> noOutcome]

\* on a device, after the constructor and init() up to its prepareRewarded call
deviceAd ==
  [admob |-> TRUE, rewardedReady |-> FALSE, preparing |-> TRUE,
   listeners |-> 0, outcome |-> noOutcome]

\* prepareRewarded: ok is whether rewardvideo.prepare() succeeded
prepareRewarded(a, ok) ==
  IF ~a.admob THEN a
  ELSE [a EXCEPT !.rewardedReady = ok, !.preparing = FALSE]

\* showRewarded up to its first suspension: TRUE when the reward is granted on
\* the spot (the fallback), FALSE when the handlers were registered instead.
rewardedFallback(a) == ~a.admob \/ ~a.rewardedReady

showRewarded(a) ==
  IF rewardedFallback(a)
  THEN [a EXCEPT !.outcome = [requests |-> 1, watched |-> TRUE, rewards |-> 1]]
  ELSE [a EXCEPT !.listeners = @ + 1]

\* the event onRewardedVideoAdRewarded: every registered rewardHandler runs
\* onRewarded once, removes itself and its closeHandler, and resolves true
rewardHandlers(a) ==
  [a EXCEPT !.listeners = 0,
            !.rewardedReady = FALSE,
            !.preparing = TRUE,
            !.outcome = [requests |-> a.listeners, watched |-> TRUE, rewards |-> a.listeners]]

\* Close handlers that grant the reward as they resolve.
closeHandlersRewarding(a) ==
  [a EXCEPT !.listeners = 0,
            !.preparing = TRUE,
            !.outcome = [requests |-> a.listeners, watched |-> FALSE, rewards |-> a.listeners]]

\* the event onRewardedVideoAdClosed: every registered closeHandler removes
\* itself and its rewardHandler, and resolves false
closeHandlers(a) ==
  [a EXCEPT !.listeners = 0,
            !.preparing = TRUE,
            !.outcome = [requests |-> a.listeners, watched |-> FALSE, rewards |-> 0]]

----------------------------------------------------------------------------
(* main-vr.js *)

\* The frame's pass over rubbleActive, from its last index a down to the
\* first.  fallen is the set of slots whose position.y has dropped below -120
\* in this frame (the integration of y itself is not kept).
\* Rubble physics that deactivates a fallen slot and does not free it.
RECURSIVE rubblePhysicsLeaking(_, _, _)
rubblePhysicsLeaking(s, a, fallen) ==
  IF a < 1 THEN s
  ELSE LET i == s.rubbleActive[a]
           n == Len(s.rubbleActive)
           last == s.rubbleActive[n]
           popped == SubSeq(s.rubbleActive, 1, n - 1)
           removed == IF a <= n - 1 THEN [popped EXCEPT ![a] = last] ELSE popped
       IN IF ~s.rubbleData[i].isActive
          THEN rubblePhysicsLeaking([s EXCEPT !.rubbleActive = removed], a - 1, fallen)
          ELSE IF i \in fallen
          THEN rubblePhysicsLeaking([s EXCEPT !.rubbleData[i].isActive = FALSE,
                                              !.rubbleActive = removed], a - 1, fallen)
          ELSE rubblePhysicsLeaking(s, a - 1, fallen)

RECURSIVE rubblePhysics(_, _, _)
rubblePhysics(s, a, fallen) ==
  IF a < 1 THEN s
  ELSE LET i == s.rubbleActive[a]
           n == Len(s.rubbleActive)
           last == s.rubbleActive[n]
           popped == SubSeq(s.rubbleActive, 1, n - 1)
           removed == IF a <= n - 1 THEN [popped EXCEPT ![a] = last] ELSE popped
       IN IF ~s.rubbleData[i].isActive
          THEN rubblePhysics([s EXCEPT !.rubbleActive = removed], a - 1, fallen)
          ELSE IF i \in fallen
          THEN rubblePhysics([s EXCEPT !.rubbleData[i].isActive = FALSE,
                                       !.rubbleFree = Append(@, i),
                                       !.rubbleActive = removed], a - 1, fallen)
          ELSE rubblePhysics(s, a - 1, fallen)

\* "Update active block movement": the block reaches target on its axis
\* (bouncing at +-13), heading the way it last moved.
moveActiveBlock(s, target) ==
  LET old == pos(s.activeBlock, s.axis)
      p == IF Abs(target) > BOUNCE_LIMIT THEN BOUNCE_LIMIT * Sign(target) ELSE target
      dir == IF p > old THEN 1 ELSE IF p < old THEN -1 ELSE s.direction
  IN [s EXCEPT !.activeBlock = IF s.axis = "x" THEN [@ EXCEPT !.x = p] ELSE [@ EXCEPT !.z = p],
               !.direction = dir]

\* One burst of frames: dt seconds of game time, at least the two seconds of
\* the grace period (graceOver), the active block at target, the slots of
\* fallen below the depth threshold.
animate(s, dt, target, fallen) ==
  LET s1 == IF s.status = "PLAYING" /\ s.activeBlock # NoBlock
            THEN moveActiveBlock(updatePowerUpTimers(s, dt), target)
            ELSE s
      s2 == rubblePhysics(s1, Len(s1.rubbleActive), fallen)
  IN [s2 EXCEPT !.graceOver = TRUE]

setDifficulty(s, diff) == [s EXCEPT !.difficulty = diff]

\* init(): loadBestScores, initializeState, initEngine, initGameData
init(storedBest, storedStreak, storedDifficulty) ==
  [initEngine(initializeState(
     [initialState EXCEPT !.bestScore = storedBest, !.bestStreak = storedStreak],
     storedDifficulty))
   EXCEPT !.status = "START"]

----------------------------------------------------------------------------
(* The player.  A drop is aimed at one of these offsets from the block below,
   given the extent sz of the active block on the axis of motion. *)

DropKinds == {"exact", "near", "edge", "mercy", "sliver", "graze", "clear"}

StreakKinds == {"exact", "clear"}

DropDelta(kind, sz) ==
  CASE kind = "exact"  -> 0
    [] kind = "near"   -> 100
    [] kind = "edge"   -> -150
    [] kind = "mercy"  -> 200
    [] kind = "sliver" -> -(sz - 60)
    [] kind = "graze"  -> sz - 50
    [] kind = "clear"  -> -(sz + 500)

Targets(s, kinds) ==
  IF s.activeBlock # NoBlock /\ Len(s.stack) > 0
  THEN {pos(Last(s.stack), s.axis) + DropDelta(k, extent(s.activeBlock, s.axis)) : k \in kinds}
  ELSE {0}

\* the aims of a player who drops on target, and near the edge of the
\* threshold once the block in flight is a widened one
SuperKinds(s) ==
  IF s.activeBlock # NoBlock /\ s.activeBlock.width > s.activeBlock.baseWidth
  THEN {"exact", "edge"}
  ELSE {"exact"}

ActiveSlots(s) == {s.rubbleActive[a] : a \in 1..Len(s.rubbleActive)}

----------------------------------------------------------------------------
(* Actions: the frame callback and the handlers the screens offer (ui.js) *)

Animate(kinds) ==
  /\ \E target \in Targets(state, kinds), fallen \in SUBSET ActiveSlots(state) :
        state' = animate(state, BurstSeconds, target, fallen)
  /\ UNCHANGED ad

\* handleInput / handleVRInput
HandleInput(maxLen) ==
  /\ state.status = "PLAYING"
  /\ \E rndSpawn \in BOOLEAN, rndType \in 1..4 :
        LET t == placeBlock(state, rndSpawn, rndType)
        IN /\ Len(t.stack) <= maxLen
           /\ state' = t
  /\ UNCHANGED ad

\* renderStart: NEW GAME / ENTER VOID
GameStartNew ==
  /\ state.status = "START"
  /\ \E rnd \in BOOLEAN : state' = startGame(state, rnd)
  /\ UNCHANGED ad

\* renderGameOver: RE-TRY
GameRestart ==
  /\ state.status = "GAMEOVER"
  /\ \E rnd \in BOOLEAN : state' = startGame(state, rnd)
  /\ UNCHANGED ad

\* renderStart: RESUME GAME (shown when stack.length > 1); renderPaused: CONTINUE
GameResume ==
  /\ \/ state.status = "START" /\ Len(state.stack) > 1
     \/ state.status = "PAUSED"
  /\ state' = resumeGame(state)
  /\ UNCHANGED ad

\* renderHUD: the pause button
GamePause ==
  /\ state.status = "PLAYING"
  /\ state' = pauseGame(state)
  /\ UNCHANGED ad

\* renderHUD: Menu; renderPaused: QUIT; renderGameOver: MENU
GameBackToMenu ==
  /\ state.status \in {"PLAYING", "PAUSED", "GAMEOVER"}
  /\ state' = backToMenu(state)
  /\ UNCHANGED ad

\* renderGameOver: CONTINUE + REWARDS (shown while continuesUsed < 1)
GameContinueWithAd ==
  /\ state.status = "GAMEOVER"
  /\ state.continuesUsed < 1
  /\ ad.listeners < MaxPending
  /\ ad' = showRewarded(ad)
  /\ state' = IF rewardedFallback(ad) THEN onRewarded(state, 1) ELSE state

\* the ad service reports that the player has earned the reward
AdRewarded ==
  /\ ad.listeners > 0
  /\ LET a == rewardHandlers(ad)
     IN /\ ad' = a
        /\ state' = onRewarded(state, a.outcome.rewards)

\* the ad service reports that the ad was closed
AdClosed ==
  /\ ad.listeners > 0
  /\ LET a == closeHandlers(ad)
     IN /\ ad' = a
        /\ state' = onRewarded(state, a.outcome.rewards)

\* prepareRewarded completes (from init, or a second after a reward or a close)
AdPrepared ==
  /\ ad.preparing
  /\ \E ok \in BOOLEAN : ad' = prepareRewarded(ad, ok)
  /\ UNCHANGED state

\* renderStart: the difficulty grid
GameSetDiff ==
  /\ state.status = "START"
  /\ \E diff \in DifficultyNames : state' = setDifficulty(state, diff)
  /\ UNCHANGED ad

\* the power-up inventory, shown while PLAYING
ActivatePowerUpSlot ==
  /\ state.status = "PLAYING"
  /\ \E slotIndex \in 0..2 : state' = activatePowerUp(state, slotIndex)
  /\ UNCHANGED ad

----------------------------------------------------------------------------
(* Specifications *)

\* after init(), with the records and the difficulty that storage holds and
\* the ad service of the build
InitOn(storedBest, service) ==
  /\ \E d \in DifficultyNames : state = init(storedBest, storedBest, d)
  /\ ad = service

\* in a browser
InitWith(storedBest) == InitOn(storedBest, browserAd)

\* a returning player, whose records are out of reach of a bounded session
Init == InitWith(SeasonedBest)

\* a first-time player
InitFresh == InitWith(0)

\* Short stacks, every aim, no continue, the difficulty as loaded.
Next ==
  \/ Animate(DropKinds)
  \/ HandleInput(MaxStack)
  \/ GameStartNew
  \/ GameRestart
  \/ GameResume
  \/ GamePause
  \/ GameBackToMenu

Spec == Init /\ [][Next]_vars

\* Frames in which every falling fragment passes the depth threshold.  A
\* fragment starts with velocity -10 and loses 25 per second, so it sinks by
\* at least 50 dt in each frame and is below -120 after finitely many frames.
Settle ==
  /\ \E target \in Targets(state, DropKinds) :
        state' = animate(state, BurstSeconds, target, ActiveSlots(state))
  /\ UNCHANGED ad

\* The same program with frames that keep coming.
SpecLive == Init /\ [][Next]_vars /\ WF_vars(Settle)

\* Shorter stacks, every aim, with the rewarded continue.
NextContinue ==
  \/ Animate(DropKinds)
  \/ HandleInput(MaxNetStack)
  \/ GameStartNew
  \/ GameRestart
  \/ GameResume
  \/ GamePause
  \/ GameBackToMenu
  \/ GameContinueWithAd

SpecContinue == Init /\ [][NextContinue]_vars

\* Long stacks of a player who drops on target or misses clean, and uses the
\* power-ups.
NextStreak ==
  \/ Animate(StreakKinds)
  \/ HandleInput(MaxStreakStack)
  \/ GameStartNew
  \/ GameRestart
  \/ ActivatePowerUpSlot

SpecStreak == Init /\ [][NextStreak]_vars

\* Stacks of a player who drops on target and visits the menu.
NextMenu ==
  \/ Animate({"exact"})
  \/ HandleInput(MaxMenuStack)
  \/ GameStartNew
  \/ GameResume
  \/ GamePause
  \/ GameBackToMenu
  \/ GameSetDiff

SpecMenu == Init /\ [][NextMenu]_vars

\* A device build with rewarded ads: short stacks of a player who drops on
\* target or misses clean.
\* init() awaits the ad service's init before it installs the handlers, so the
\* first prepareRewarded has completed, with or without an ad.
InitAd == \E ok \in BOOLEAN : InitOn(SeasonedBest, prepareRewarded(deviceAd, ok))

NextAd ==
  \/ Animate(StreakKinds)
  \/ HandleInput(MaxAdStack)
  \/ GameStartNew
  \/ GameRestart
  \/ GameResume
  \/ GamePause
  \/ GameBackToMenu
  \/ GameContinueWithAd
  \/ AdRewarded
  \/ AdClosed
  \/ AdPrepared

SpecAd == InitAd /\ [][NextAd]_vars

\* The same, with what the browser schedules by itself: the frame callback
\* keeps running and a started prepareRewarded completes.  The ad service's
\* events and the player's taps come from outside and carry no fairness.
SpecAdLive ==
  /\ InitAd
  /\ [][NextAd]_vars
  /\ WF_vars(Animate(StreakKinds))
  /\ WF_vars(AdPrepared)

\* Stacks of a player who earns power-ups on target and cuts widened blocks.
NextSuper ==
  \/ Animate(SuperKinds(state))
  \/ HandleInput(MaxSuperStack)
  \/ GameStartNew
  \/ GamePause
  \/ GameResume
  \/ ActivatePowerUpSlot

SpecSuper == Init /\ [][NextSuper]_vars

\* A first-time player (no records in storage) who drops on target or misses
\* clean, restarts and takes the rewarded continue.
NextFresh ==
  \/ Animate(StreakKinds)
  \/ HandleInput(MaxFreshStack)
  \/ GameStartNew
  \/ GameRestart
  \/ GameBackToMenu
  \/ GameContinueWithAd

SpecFresh == InitFresh /\ [][NextFresh]_vars

\* A player who earns a power-up, uses it, pauses, visits the menu, misses and
\* takes the continue.
NextEffects ==
  \/ Animate(StreakKinds)
  \/ HandleInput(MaxEffectStack)
  \/ GameStartNew
  \/ GameRestart
  \/ GameResume
  \/ GamePause
  \/ GameBackToMenu
  \/ ActivatePowerUpSlot
  \/ GameContinueWithAd

SpecEffects == Init /\ [][NextEffects]_vars

----------------------------------------------------------------------------
(* Vocabulary of the properties.  The quantities of a drop are restated here
   from the geometry of the state, apart from the operators of placeBlock. *)

\* placeBlock gets past its two early returns
Eligible(s) ==
  /\ s.status = "PLAYING"
  /\ s.activeBlock # NoBlock
  /\ s.graceOver
  /\ Len(s.stack) > 0

DropSize(s) == IF s.axis = "x" THEN s.activeBlock.width ELSE s.activeBlock.depth

DropOffset(s) ==
  IF s.axis = "x" THEN s.activeBlock.x - Last(s.stack).x
                  ELSE s.activeBlock.z - Last(s.stack).z

DropThreshold(s) ==
  IF Len(s.stack) <= DIFFICULTIES[s.difficulty].mercy
  THEN DIFFICULTIES[s.difficulty].threshold
  ELSE 150

RoundedOffset(s) == IF Abs(DropOffset(s)) < DropThreshold(s) THEN 0 ELSE DropOffset(s)

DropOverlap(s) == DropSize(s) - Abs(RoundedOffset(s))

NetReady(s) == s.activePowerUps.safetyNet.active /\ s.activePowerUps.safetyNet.uses > 0

\* the states placeBlock can leave, over the random draws it makes
Drops(s) == {placeBlock(s, rndSpawn, rndType) : rndSpawn \in BOOLEAN, rndType \in 1..4}

PoolSlots == 0..(MAX_RUBBLE - 1)

Occurrences(seq, i) == Cardinality({k \in 1..Len(seq) : seq[k] = i})

\* the pool of s and of t hold the same slots in the same lists
SamePool(s, t) ==
  /\ t.rubbleFree = s.rubbleFree
  /\ t.rubbleActive = s.rubbleActive
  /\ t.rubbleData = s.rubbleData

\* exactly slot i went from the free list of s to the active list of t
MovedSlot(s, t, i) ==
  /\ Occurrences(s.rubbleFree, i) = 1 /\ Occurrences(t.rubbleFree, i) = 0
  /\ Occurrences(s.rubbleActive, i) = 0 /\ Occurrences(t.rubbleActive, i) = 1
  /\ t.rubbleData[i].isActive
  /\ \A j \in PoolSlots \ {i} :
       /\ Occurrences(t.rubbleFree, j) = Occurrences(s.rubbleFree, j)
       /\ Occurrences(t.rubbleActive, j) = Occurrences(s.rubbleActive, j)
       /\ t.rubbleData[j] = s.rubbleData[j]

----------------------------------------------------------------------------
(* Properties *)

\* C1: Rubble pool well-formedness.  In every reachable state each slot index
\* of the pool occurs exactly once in rubbleFree and rubbleActive together
\* (so the two lists hold MAX_RUBBLE entries in all), and a slot's isActive
\* flag is set iff its index is in rubbleActive.
PoolWellFormed ==
  /\ Len(state.rubbleFree) + Len(state.rubbleActive) = MAX_RUBBLE
  /\ \A i \in PoolSlots :
       /\ Occurrences(state.rubbleFree, i) + Occurrences(state.rubbleActive, i) = 1
       /\ state.rubbleData[i].isActive <=> (Occurrences(state.rubbleActive, i) = 1)

\* A fragment is falling and a slot released by the frame loop heads the free
\* list: spawnRubble and the per-tick release have both acted.
PoolRecycled ==
  /\ Len(state.rubbleActive) >= 1
  /\ Len(state.rubbleFree) >= 1
  /\ state.rubbleFree[1] # 0

\* C2, as stated: a drop past the grace period whose overlap is <= 0.05, with
\* no safety net ready, takes the status from PLAYING to GAMEOVER and empties
\* activeBlock.
MissEndsGameBlockCleared ==
  \A t \in Drops(state) :
    (Eligible(state) /\ DropOverlap(state) <= 50 /\ ~NetReady(state))
      => (t.status = "GAMEOVER" /\ t.activeBlock = NoBlock)

\* C2, amended: such a drop takes the status from PLAYING to GAMEOVER and
\* leaves activeBlock and the stack as they were: the missed block stays the
\* active block.
MissEndsGameBlockKept ==
  \A t \in Drops(state) :
    (Eligible(state) /\ DropOverlap(state) <= 50 /\ ~NetReady(state))
      => /\ t.status = "GAMEOVER"
         /\ t.activeBlock = state.activeBlock
         /\ t.activeBlock # NoBlock
         /\ t.stack = state.stack

\* The game is over and the block that missed is still the active block.
MissedBlockLeft ==
  /\ state.status = "GAMEOVER"
  /\ state.activeBlock # NoBlock
  /\ Len(state.stack) > 0
  /\ DropOverlap(state) <= 50
  /\ ~NetReady(state)

\* C3: a drop past the grace period whose overlap is <= 0.05, with the safety
\* net active and uses > 0: the status stays PLAYING, combo becomes 0, uses
\* drops by exactly 1 and the net goes inactive at 0, the missed block is
\* replaced by a new active block one level above the top of the stack, and
\* the stack, the score, the speed and the rubble pool are unchanged.
NetCatchesMiss ==
  \A t \in Drops(state) :
    (Eligible(state) /\ DropOverlap(state) <= 50 /\ NetReady(state))
      => /\ t.status = "PLAYING"
         /\ t.combo = 0
         /\ t.activePowerUps.safetyNet.uses = state.activePowerUps.safetyNet.uses - 1
         /\ t.activePowerUps.safetyNet.active = (t.activePowerUps.safetyNet.uses > 0)
         /\ t.activeBlock # NoBlock
         /\ t.activeBlock # state.activeBlock
         /\ t.activeBlock.y = Last(t.stack).y + BLOCK_HEIGHT
         /\ Abs(pos(t.activeBlock, t.axis)) = SPAWN_OFFSET
         /\ ~t.graceOver
         /\ t.stack = state.stack
         /\ t.score = state.score
         /\ t.speed = state.speed
         /\ SamePool(state, t)

\* The net of a continue has caught a miss: it is spent, the combo is broken,
\* a block has just been spawned, and the axis has flipped without the stack
\* growing (otherwise the axis is z exactly on stacks of odd length).
NetSpent ==
  /\ state.status = "PLAYING"
  /\ state.continuesUsed = 1
  /\ ~state.activePowerUps.safetyNet.active
  /\ state.activePowerUps.safetyNet.uses = 0
  /\ state.combo = 0
  /\ ~state.graceOver
  /\ state.activeBlock # NoBlock
  /\ state.axis = (IF Len(state.stack) % 2 = 1 THEN "x" ELSE "z")

\* 0.05 < overlap < size
PartialDrop(s) == Eligible(s) /\ 50 < DropOverlap(s) /\ DropOverlap(s) < DropSize(s)

\* the block t has on top is the dropped block of s cut to the overlap
PlacedCut(s, t) ==
  /\ Len(t.stack) = Len(s.stack) + 1
  /\ extent(Last(t.stack), s.axis) = DropOverlap(s)
  /\ extent(Last(t.stack), otherAxis(s.axis)) = extent(s.activeBlock, otherAxis(s.axis))

\* C4, as stated: on every drop with 0.05 < overlap < size exactly one rubble
\* slot moves from the free list to the active list, the placed block's extent
\* on the motion axis is the overlap, and that extent plus the fragment's
\* extent is the block's extent before the cut.
CutMovesOneSlot ==
  \A t \in Drops(state) :
    PartialDrop(state)
      => /\ PlacedCut(state, t)
         /\ \E i \in PoolSlots :
              /\ MovedSlot(state, t, i)
              /\ DropOverlap(state) + t.rubbleData[i].size = DropSize(state)

\* C4, amended: on every such drop the placed block's extent on the motion
\* axis is the overlap; while the free list holds a slot, exactly one slot (the
\* last of the free list) moves to the end of the active list and the placed
\* extent plus the fragment's extent is the extent before the cut; when the
\* free list is empty the pool is unchanged and no fragment is made.
CutMovesOneSlotIfFree ==
  \A t \in Drops(state) :
    PartialDrop(state)
      => /\ PlacedCut(state, t)
         /\ IF Len(state.rubbleFree) > 0
            THEN LET i == state.rubbleFree[Len(state.rubbleFree)]
                 IN /\ MovedSlot(state, t, i)
                    /\ t.rubbleActive = Append(state.rubbleActive, i)
                    /\ DropOverlap(state) + t.rubbleData[i].size = DropSize(state)
            ELSE SamePool(state, t)

\* A cut is about to be made while every slot of the pool is falling: the
\* block is trimmed and placed, and no slot moves.
CutOnExhaustedPool ==
  /\ PartialDrop(state)
  /\ state.rubbleFree = <<>>
  /\ \A t \in Drops(state) : PlacedCut(state, t) /\ SamePool(state, t)

\* delta = 0 after the rounding, and not a miss
PerfectDrop(s) == Eligible(s) /\ 50 < DropOverlap(s) /\ RoundedOffset(s) = 0

\* C5: on every drop classified perfect (delta 0 after the mercy rounding,
\* whatever the raw delta was) the placed block sits exactly at the position,
\* on the motion axis, of the block below it, its footprint and its stored
\* base dimensions are those of the dropped block, and the pool is unchanged.
PerfectSnaps ==
  \A t \in Drops(state) :
    PerfectDrop(state)
      => /\ Len(t.stack) = Len(state.stack) + 1
         /\ SubSeq(t.stack, 1, Len(state.stack)) = state.stack
         /\ pos(Last(t.stack), state.axis) = pos(Last(state.stack), state.axis)
         /\ pos(Last(t.stack), otherAxis(state.axis))
              = pos(state.activeBlock, otherAxis(state.axis))
         /\ Last(t.stack).width = state.activeBlock.width
         /\ Last(t.stack).depth = state.activeBlock.depth
         /\ Last(t.stack).baseWidth = state.activeBlock.baseWidth
         /\ Last(t.stack).baseDepth = state.activeBlock.baseDepth
         /\ SamePool(state, t)

\* A block hangs off centre by less than the threshold, and dropping it
\* places it exactly above the block below.
NearDropSnaps ==
  /\ PerfectDrop(state)
  /\ DropOffset(state) # 0
  /\ \A t \in Drops(state) :
       /\ Len(t.stack) = Len(state.stack) + 1
       /\ pos(Last(t.stack), state.axis) = pos(Last(state.stack), state.axis)
       /\ pos(Last(t.stack), state.axis) # pos(state.activeBlock, state.axis)

\* C6: placeBlock classifies every eligible drop in this order.  delta is
\* replaced by 0 when |delta| is strictly below the threshold (the
\* difficulty's mercy threshold while the stack length is <= its mercy count,
\* 0.15 otherwise); then overlap = size - |delta| <= 0.05 is a miss (nothing
\* is placed); otherwise delta = 0 is perfect (the whole block is placed, the
\* combo grows by one); otherwise the drop is partial (the block is placed cut
\* to the overlap, the combo is 0).  Exactly one of the three outcomes happens.
DropClassified ==
  \A t \in Drops(state) :
    Eligible(state) =>
      LET grew == Len(t.stack) = Len(state.stack) + 1
          missed == t.stack = state.stack
          whole == /\ grew
                   /\ t.combo = state.combo + 1
                   /\ extent(Last(t.stack), state.axis) = DropSize(state)
          cut == /\ grew
                 /\ t.combo = 0
                 /\ extent(Last(t.stack), state.axis) = DropOverlap(state)
                 /\ extent(Last(t.stack), state.axis) < DropSize(state)
      IN /\ (DropOverlap(state) <= 50) <=> missed
         /\ (DropOverlap(state) > 50 /\ RoundedOffset(state) = 0) <=> whole
         /\ (DropOverlap(state) > 50 /\ RoundedOffset(state) # 0) <=> cut
         /\ ~(missed /\ whole) /\ ~(missed /\ cut) /\ ~(whole /\ cut)
         /\ missed \/ whole \/ cut

\* Past the mercy blocks a block hangs off by exactly 0.15, which is not
\* below the threshold: dropping it cuts it.
ThresholdDropIsCut ==
  /\ Eligible(state)
  /\ Len(state.stack) > DIFFICULTIES[state.difficulty].mercy
  /\ Abs(DropOffset(state)) = 150
  /\ \A t \in Drops(state) :
       /\ Len(t.stack) = Len(state.stack) + 1
       /\ t.combo = 0
       /\ extent(Last(t.stack), state.axis) = DropSize(state) - 150

\* the inventory of t is the inventory of s with one kind written into the
\* lowest empty slot, or the inventory of s when no slot is empty
LowestEmptyFilled(s, t) ==
  IF \E i \in 1..3 : s.powerUps[i] = NULL
  THEN \E e \in 1..3 :
         /\ s.powerUps[e] = NULL
         /\ \A j \in 1..(e - 1) : s.powerUps[j] # NULL
         /\ t.powerUps[e] \in {"slowMo", "safetyNet", "superSize", "resetSize"}
         /\ \A j \in (1..3) \ {e} : t.powerUps[j] = s.powerUps[j]
  ELSE t.powerUps = s.powerUps

\* what a drop does to the milestone and the inventory
MilestoneRule ==
  \A t \in Drops(state) :
    Eligible(state) =>
      LET combo == state.combo + 1
          due == /\ PerfectDrop(state)
                 /\ combo > 0 /\ combo % 5 = 0
                 /\ combo > state.lastComboMilestone
      IN IF due
         THEN t.lastComboMilestone = combo /\ LowestEmptyFilled(state, t)
         ELSE /\ t.lastComboMilestone = state.lastComboMilestone
              /\ t.powerUps = state.powerUps

\* a step lowers the milestone only by starting a session
MilestoneStep ==
  \/ state'.lastComboMilestone >= state.lastComboMilestone
  \/ \E rnd \in BOOLEAN : state' = startGame(state, rnd)

\* C7: a drop attempts an award iff it is perfect and the incremented combo is
\* a positive multiple of 5 strictly above lastComboMilestone, and it then sets
\* lastComboMilestone to that combo; every other drop leaves the milestone and
\* the inventory alone (so a combo of 6 after an award at 5 awards nothing, and
\* no combo value is awarded twice); and no step other than startGame lowers
\* lastComboMilestone.
MilestoneAwards == [](MilestoneRule) /\ [][MilestoneStep]_vars

\* The combo stands at 6 after the award at 5: one power-up is held, and the
\* sixth perfect drop has brought none.
ComboSixAfterAward ==
  /\ state.combo = 6
  /\ state.lastComboMilestone = 5
  /\ state.powerUps[1] # NULL
  /\ state.powerUps[2] = NULL
  /\ state.powerUps[3] = NULL

\* C8: awardPowerUp writes one power-up kind into the lowest-index empty slot
\* and leaves the other two slots, and the rest of the state, unchanged; with
\* all three slots occupied it changes nothing.
AwardFillsLowestEmpty ==
  \A rndType \in 1..4 :
    LET t == awardPowerUp(state, rndType)
    IN /\ LowestEmptyFilled(state, t)
       /\ (\E i \in 1..3 : state.powerUps[i] = NULL) => t.powerUps # state.powerUps
       /\ [t EXCEPT !.powerUps = state.powerUps] = state

\* Three awards have filled the inventory, and a further award changes nothing.
InventoryFull ==
  /\ \A i \in 1..3 : state.powerUps[i] # NULL
  /\ state.lastComboMilestone = 15
  /\ \A rndType \in 1..4 : awardPowerUp(state, rndType) = state

\* C9: in any reachable state, cleanup leaves the stack empty, no active
\* block, and every slot of the pool inactive and in the free list; a second
\* cleanup right after changes nothing.
CleanupResets ==
  LET t == cleanup(state)
  IN /\ t.stack = <<>>
     /\ t.activeBlock = NoBlock
     /\ t.rubbleActive = <<>>
     /\ Len(t.rubbleFree) = MAX_RUBBLE
     /\ \A i \in PoolSlots :
          ~t.rubbleData[i].isActive /\ Occurrences(t.rubbleFree, i) = 1
     /\ cleanup(t) = t

\* The game is over on a stack with fragments still falling and released slots
\* out of order in the free list; cleanup (MENU, RE-TRY) empties all of it.
CleanupOfLitteredPool ==
  /\ state.status = "GAMEOVER"
  /\ Len(state.stack) > 1
  /\ state.activeBlock # NoBlock
  /\ Len(state.rubbleActive) >= 1
  /\ Len(state.rubbleFree) >= 1
  /\ state.rubbleFree[1] # 0
  /\ cleanup(state).rubbleActive = <<>>
  /\ cleanup(state).stack = <<>>

\* C10, the bound: speed never exceeds the maximum speed of the difficulty
\* currently selected.
SpeedWithinMax == state.speed <= DIFFICULTIES[state.difficulty].max

\* C10, the order: no step other than startGame lowers speed.
SpeedStep ==
  \/ state'.speed >= state.speed
  \/ \E rnd \in BOOLEAN : state' = startGame(state, rnd)

\* C10: within a session speed never decreases and never exceeds the maximum
\* speed of the difficulty currently selected, whatever the interleaving of
\* placements, pause, menu, resume and difficulty selection.
SpeedMonotoneWithinMax == [](SpeedWithinMax) /\ [][SpeedStep]_vars

\* C11  continuesUsed never exceeds 1: the rewarded continue takes effect at
\* most once per session, also when several requests are pending together.
\* Two requests started before the reward each register a reward handler, and
\* the one reward event runs both.
ContinueAtMostOnce == state.continuesUsed <= 1

\* C12  Status changes only along the listed transitions: startGame
\* Start->Playing, pauseGame Playing->Paused, resumeGame Paused->Playing,
\* backToMenu Playing/Paused/GameOver->Start, continueGame GameOver->Playing,
\* a miss Playing->GameOver; in any other status each leaves status unchanged.
Rewarded(s) == {onRewarded(s, n) : n \in 1..MaxPending}

Restarts(s) == {startGame(s, rnd) : rnd \in BOOLEAN}

ListedStep ==
  LET a == state.status
      b == state'.status
  IN a # b =>
       \/ a = "START" /\ b = "PLAYING" /\ state' \in Restarts(state)
       \/ a = "PLAYING" /\ b = "PAUSED" /\ state' = pauseGame(state)
       \/ a = "PAUSED" /\ b = "PLAYING" /\ state' = resumeGame(state)
       \/ a \in {"PLAYING", "PAUSED", "GAMEOVER"} /\ b = "START" /\ state' = backToMenu(state)
       \/ a = "GAMEOVER" /\ b = "PLAYING" /\ state' \in Rewarded(state)
       \/ a = "PLAYING" /\ b = "GAMEOVER" /\ state' \in Drops(state)

StatusTable ==
  /\ \A t \in Restarts(state) : t.status = "PLAYING"
  /\ pauseGame(state).status = IF state.status = "PLAYING" THEN "PAUSED" ELSE state.status
  /\ resumeGame(state).status = IF state.status = "GAMEOVER" THEN "GAMEOVER" ELSE "PLAYING"
  /\ backToMenu(state).status = "START"
  /\ \A t \in Rewarded(state) : t.status = "PLAYING"
  /\ state.status = "PLAYING" =>
       \A t \in Drops(state) : t.status \in {"PLAYING", "GAMEOVER"}

ActualStep ==
  LET a == state.status
      b == state'.status
  IN a # b =>
       \/ a \in {"START", "GAMEOVER"} /\ b = "PLAYING" /\ state' \in Restarts(state)
       \/ a = "PLAYING" /\ b = "PAUSED" /\ state' = pauseGame(state)
       \/ a \in {"START", "PAUSED"} /\ b = "PLAYING" /\ state' = resumeGame(state)
       \/ b = "START" /\ state' = backToMenu(state)
       \/ b = "PLAYING" /\ state' \in Rewarded(state)
       \/ a = "PLAYING" /\ b = "GAMEOVER" /\ state' \in Drops(state)

Finished(s) == s.stack = <<>>

MenuAfterGameOver ==
  state.status = "GAMEOVER" =>
    LET t == backToMenu(state)
    IN t.status = "START" /\ Finished(t) /\ t.activeBlock = NoBlock

ResumesFinished ==
  /\ Finished(state)
  /\ state.status # "PLAYING"
  /\ state' = resumeGame(state)
  /\ state'.status = "PLAYING"

FinishedNotResumed == [](MenuAfterGameOver) /\ [][~ResumesFinished]_vars

\* C14  The super-size multiplier is never baked into stored base dimensions:
\* the base width and depth stored on a placed block do not exceed those of
\* the block directly below it, so no stored base exceeds the foundation's
\* footprint.
Placed(s, t) == Len(t.stack) = Len(s.stack) + 1

BaseWithin(b, below) == b.baseWidth <= below.baseWidth /\ b.baseDepth <= below.baseDepth

BaseNeverGrows ==
  /\ Eligible(state) =>
       \A t \in Drops(state) :
          Placed(state, t) => BaseWithin(Last(t.stack), Last(state.stack))
  /\ \A i \in 1..Len(state.stack) :
       state.stack[i].baseWidth <= INITIAL_SIZE /\ state.stack[i].baseDepth <= INITIAL_SIZE

\* C15  After superSize is activated with count 2, exactly the next 2 spawned
\* blocks are 1.3 times the stored base: a block spawned by a placement made
\* with count c is widened exactly when c > 0; each resolved placement takes
\* one off the count, and the effect is inactive once the count is 0.
Widened(b) ==
  /\ b.width = (13 * b.baseWidth) \div 10
  /\ b.depth = (13 * b.baseDepth) \div 10

SuperCount(s) ==
  IF s.activePowerUps.superSize.active THEN s.activePowerUps.superSize.count ELSE 0

SuperSizeWidensNextTwo ==
  Eligible(state) =>
    \A t \in Drops(state) :
       Placed(state, t) =>
         /\ SuperCount(t) = IF SuperCount(state) > 0 THEN SuperCount(state) - 1 ELSE 0
         /\ t.activePowerUps.superSize.active = (t.activePowerUps.superSize.count > 0)
         /\ Widened(t.activeBlock) <=> SuperCount(state) > 0

\* C16  placeBlock with no active block, or less than 2 seconds after the last
\* spawn, is a silent no-op: status, stack, active block, score, combo, speed,
\* the power-ups and the rubble pool are all unchanged.
SameGame(s, t) ==
  /\ t.status = s.status
  /\ t.stack = s.stack
  /\ t.activeBlock = s.activeBlock
  /\ t.score = s.score
  /\ t.combo = s.combo
  /\ t.speed = s.speed
  /\ t.powerUps = s.powerUps
  /\ t.activePowerUps = s.activePowerUps
  /\ SamePool(s, t)

Untimely(s) == s.activeBlock = NoBlock \/ ~s.graceOver

UntimelyDropIgnored ==
  Untimely(state) => \A t \in Drops(state) : SameGame(state, t)

\* a block just spawned, off the stack, dropped inside the grace period
DropInsideGrace ==
  /\ state.status = "PLAYING"
  /\ state.activeBlock # NoBlock
  /\ ~state.graceOver
  /\ Abs(DropOffset(state)) >= SPAWN_OFFSET
  /\ \E t \in Drops(state) : SameGame(state, t)

\* C17  With the free list empty a partial placement still completes (the
\* block is trimmed and pushed, the score grows by one, the next block is
\* spawned) while the debris request is dropped: the free list, the active
\* list and every slot's data are unchanged and the pool does not grow.
NextBlockSpawned(s, t) ==
  /\ t.status = "PLAYING"
  /\ t.activeBlock # NoBlock
  /\ t.activeBlock # s.activeBlock
  /\ t.axis # s.axis
  /\ Abs(pos(t.activeBlock, t.axis)) = SPAWN_OFFSET
  /\ t.activeBlock.y = Last(t.stack).y + BLOCK_HEIGHT

ExhaustedCut(s) == PartialDrop(s) /\ Len(s.rubbleFree) = 0

ExhaustedCutCompletes ==
  ExhaustedCut(state) =>
    \A t \in Drops(state) :
       /\ PlacedCut(state, t)
       /\ t.score = state.score + 1
       /\ NextBlockSpawned(state, t)
       /\ Len(t.rubbleFree) = 0
       /\ t.rubbleActive = state.rubbleActive
       /\ DOMAIN t.rubbleData = PoolSlots
       /\ \A i \in PoolSlots : t.rubbleData[i] = state.rubbleData[i]

\* every slot is falling, with fragments of different sizes, and the block in
\* flight is about to be cut: the placement goes through and scores
CutWithoutDebris ==
  /\ ExhaustedCut(state)
  /\ Len(state.rubbleActive) = MAX_RUBBLE
  /\ \E t \in Drops(state) :
        /\ Len(t.stack) = Len(state.stack) + 1
        /\ t.score = state.score + 1
        /\ t.activeBlock # NoBlock
        /\ t.rubbleData = state.rubbleData

\* C18  Each showRewarded call invokes onReward at most once and resolves true
\* exactly when it invoked it; when it resolves false continueGame does not run
\* and the game state is unchanged.
OncePerRequest ==
  ad.outcome.rewards = IF ad.outcome.watched THEN ad.outcome.requests ELSE 0

ResolveStep ==
  CASE ad'.listeners < ad.listeners ->
         /\ ad'.outcome.requests = ad.listeners
         /\ IF ad'.outcome.watched
            THEN state' = onRewarded(state, ad.listeners)
            ELSE state' = state
    [] ad'.listeners > ad.listeners -> state' = state
    [] OTHER ->
         ad'.outcome # ad.outcome =>
           ad'.outcome.watched /\ ad'.outcome.requests = 1 /\ state' = continueGame(state)

RewardIffWatched == [](OncePerRequest) /\ [][ResolveStep]_vars

\* the ad was closed without a reward: the game is still over, no continue used
ClosedWithoutReward ==
  /\ ad.outcome.requests > 0
  /\ ~ad.outcome.watched
  /\ ad.listeners = 0
  /\ state.status = "GAMEOVER"
  /\ state.continuesUsed = 0

\* C19  Every rewarded-continue request eventually resolves: also when the ad
\* service never delivers a reward or a close event after the ad is shown, the
\* request does not stay pending forever.
RequestPending == ad.listeners > 0

EveryRequestResolves == RequestPending ~> ~RequestPending

\* C20  Scenario: difficulty medium (mercy 5, threshold 0.35), a stack of
\* height 3 and combo 0, an active block 0.2 off on axis x: the delta is
\* rounded to 0 and the block is placed as a perfect placement, after which
\* combo is 1 and score is 4.
MercyScenario(s) ==
  /\ Eligible(s)
  /\ s.difficulty = "medium"
  /\ Len(s.stack) = 3
  /\ s.combo = 0
  /\ Abs(DropOffset(s)) = 200

SnappedWhole(s, t) ==
  /\ Placed(s, t)
  /\ pos(Last(t.stack), s.axis) = pos(Last(s.stack), s.axis)
  /\ extent(Last(t.stack), s.axis) = DropSize(s)

SlotChoices == -1..3

Occupied(s, k) == k \in 0..2 /\ s.powerUps[k + 1] # NULL

StartingEffect(kind) ==
  CASE kind = "slowMo" -> [active |-> TRUE, duration |-> 10]
    [] kind = "safetyNet" -> [active |-> TRUE, uses |-> 1]
    [] kind = "superSize" -> [active |-> TRUE, count |-> 2]

Durable == {"slowMo", "safetyNet", "superSize"}

ActivationFrame ==
  \A k \in SlotChoices :
    LET t == activatePowerUp(state, k)
    IN IF state.status = "PLAYING" /\ Occupied(state, k)
       THEN LET kind == state.powerUps[k + 1]
            IN /\ t.powerUps[k + 1] = NULL
               /\ \A j \in (0..2) \ {k} : t.powerUps[j + 1] = state.powerUps[j + 1]
               /\ kind \in Durable =>
                    /\ t.activePowerUps[kind] = StartingEffect(kind)
                    /\ \A e \in Durable \ {kind} : t.activePowerUps[e] = state.activePowerUps[e]
               /\ t.status = state.status
               /\ t.score = state.score
               /\ t.combo = state.combo
       ELSE t = state

\* two kinds in the inventory while another effect is running: activating the
\* durable one starts it, empties its slot and keeps the other slot and effect
ActivationAmongOthers ==
  /\ state.status = "PLAYING"
  /\ \E k, j \in 0..2 :
       /\ k # j
       /\ Occupied(state, k) /\ Occupied(state, j)
       /\ state.powerUps[k + 1] \in Durable
       /\ \E e \in Durable \ {state.powerUps[k + 1]} : state.activePowerUps[e].active
       /\ LET t == activatePowerUp(state, k)
          IN /\ t.powerUps[k + 1] = NULL
             /\ t.powerUps[j + 1] # NULL
             /\ t.activePowerUps[state.powerUps[k + 1]].active

\* C22  The rubble integration runs in every frame in every status; a slot
\* that falls below the depth threshold is deactivated and moved from
\* rubbleActive to rubbleFree in that same frame; and while frames keep
\* coming every activated slot is eventually back on the free list.
Frames(s, fallen) == {animate(s, BurstSeconds, target, fallen) : target \in Targets(s, DropKinds)}

RubbleTick ==
  \A fallen \in SUBSET ActiveSlots(state) :
    \A t \in Frames(state, fallen) :
      \A i \in PoolSlots :
        IF i \in fallen
        THEN /\ ~t.rubbleData[i].isActive
             /\ Occurrences(t.rubbleActive, i) = 0
             /\ Occurrences(t.rubbleFree, i) = 1
        ELSE /\ t.rubbleData[i] = state.rubbleData[i]
             /\ Occurrences(t.rubbleActive, i) = Occurrences(state.rubbleActive, i)
             /\ Occurrences(t.rubbleFree, i) = Occurrences(state.rubbleFree, i)

Falling(i) == state.rubbleData[i].isActive

Freed(i) == ~state.rubbleData[i].isActive /\ Occurrences(state.rubbleFree, i) = 1

RubbleReturns == [](RubbleTick) /\ \A i \in PoolSlots : Falling(i) ~> Freed(i)

\* fragments still falling while the game is paused
FallingWhilePaused ==
  /\ state.status = "PAUSED"
  /\ ActiveSlots(state) # {}
  /\ \A t \in Frames(state, ActiveSlots(state)) : Len(t.rubbleFree) = MAX_RUBBLE

\* C23  While a rewarded-continue request is pending the game stays suspended:
\* the status remains GameOver and the stack and the active block are
\* unchanged until the request resolves, so a granted reward resumes the
\* session that ended.
SuspendedWhilePending == RequestPending => state.status = "GAMEOVER"

PendingStep ==
  RequestPending /\ RequestPending' =>
    /\ state'.stack = state.stack
    /\ state'.activeBlock = state.activeBlock

PendingSuspendsGame == [](SuspendedWhilePending) /\ [][PendingStep]_vars

\* C24  continuesUsed counts the continues of the current session only: every
\* session started by startGame begins with continuesUsed = 0, whatever was
\* used in earlier sessions.
StartOffered(s) == s.status \in {"START", "GAMEOVER"}

SessionStartsWithContinue ==
  StartOffered(state) => \A t \in Restarts(state) : t.continuesUsed = 0

\* C25  spawnNewBlock is only ever invoked with no active block and a
\* non-empty stack; each spawn flips the axis relative to the previous spawn,
\* starts the block at +12 or -12 on the new axis with the direction towards
\* the centre, and aligns its other horizontal coordinate with the top block.
\* The states on which the handlers offered in s invoke spawnNewBlock:
Resolved(s) ==
  IF RoundedOffset(s) = 0
  THEN {stackBlock(placePerfect(s, Last(s.stack), s.axis, rndType)) : rndType \in 1..4}
  ELSE {stackBlock(placePartial(s, Last(s.stack), s.axis, RoundedOffset(s), DropOverlap(s),
                                extent(s.activeBlock, otherAxis(s.axis))))}

SessionCalls(s) == IF StartOffered(s) THEN {newSession(s)} ELSE {}

DropCalls(s) ==
  IF ~Eligible(s) THEN {}
  ELSE IF DropOverlap(s) > 50 THEN Resolved(s)
  ELSE IF NetReady(s) THEN {netCatch(s)}
  ELSE {}

Spawns(a) == {spawnNewBlock(a, rnd) : rnd \in BOOLEAN}

SpawnedWell(a, t) ==
  /\ a.activeBlock = NoBlock
  /\ Len(a.stack) > 0
  /\ t.activeBlock # NoBlock
  /\ Abs(pos(t.activeBlock, t.axis)) = SPAWN_OFFSET
  /\ t.direction = -Sign(pos(t.activeBlock, t.axis))
  /\ pos(t.activeBlock, otherAxis(t.axis)) = pos(Last(a.stack), otherAxis(t.axis))

\* every spawn of the handlers is a spawn on one of these states
CallsAreTheCalls ==
  /\ StartOffered(state) => Restarts(state) = UNION {Spawns(a) : a \in SessionCalls(state)}
  /\ Eligible(state) /\ (DropOverlap(state) > 50 \/ NetReady(state))
       => Drops(state) = UNION {Spawns(a) : a \in DropCalls(state)}

SpawnsFlipPrevious ==
  /\ CallsAreTheCalls
  /\ \A a \in SessionCalls(state) \cup DropCalls(state) :
       \A t \in Spawns(a) : SpawnedWell(a, t) /\ t.axis # state.axis

\* C25, as the code has it: a spawn flips the axis in force at the call.  In
\* placeBlock that is the axis of the previous spawn; startGame first sets the
\* axis to x, so the first block of every session moves along z, whatever the
\* axis of the last spawn of the session before.
SpawnsFlipCurrent ==
  /\ CallsAreTheCalls
  /\ \A a \in DropCalls(state) :
       \A t \in Spawns(a) : SpawnedWell(a, t) /\ t.axis # state.axis
  /\ \A a \in SessionCalls(state) :
       \A t \in Spawns(a) : SpawnedWell(a, t) /\ t.axis = "z"

\* a game that ended on a block moving along z, about to be started again
RestartAfterZ ==
  /\ state.status = "GAMEOVER"
  /\ state.axis = "z"
  /\ \A t \in Restarts(state) : t.axis = "z" /\ Abs(t.activeBlock.z) = SPAWN_OFFSET

\* C26  gameOver sets bestScore to max(bestScore, score) and bestStreak to
\* max(bestStreak, maxSessionCombo); so the two records never decrease over
\* any sequence of sessions, and after every gameOver bestScore >= score and
\* bestStreak >= maxSessionCombo.
Larger(a, b) == IF a > b THEN a ELSE b

RecordsKept ==
  /\ LET t == gameOver(state)
     IN /\ t.bestScore = Larger(state.bestScore, state.score)
        /\ t.bestStreak = Larger(state.bestStreak, state.maxSessionCombo)
  /\ state.status = "GAMEOVER" =>
       /\ state.bestScore >= state.score
       /\ state.bestStreak >= state.maxSessionCombo

RecordsStep ==
  /\ state'.bestScore >= state.bestScore
  /\ state'.bestStreak >= state.bestStreak

RecordsNeverDecrease == [](RecordsKept) /\ [][RecordsStep]_vars

\* a session that ended below the record an earlier session had set
EndedBelowRecord ==
  /\ state.status = "GAMEOVER"
  /\ 0 < state.score
  /\ state.score < state.bestScore
  /\ state.maxSessionCombo < state.bestStreak

\* C27  resetGameState clears score, combo, stack, active block and power-ups
\* and leaves the rubble pool untouched: rubbleFree, rubbleActive and every
\* slot's isActive flag are the same before and after, so the pool is still
\* well formed after it.
WellFormed(s) ==
  /\ Len(s.rubbleFree) + Len(s.rubbleActive) = MAX_RUBBLE
  /\ \A i \in PoolSlots :
       /\ Occurrences(s.rubbleFree, i) + Occurrences(s.rubbleActive, i) = 1
       /\ s.rubbleData[i].isActive <=> (Occurrences(s.rubbleActive, i) = 1)

ResetKeepsPool ==
  LET t == resetGameState(state)
  IN /\ t.score = 0 /\ t.combo = 0
     /\ t.stack = <<>>
     /\ t.activeBlock = NoBlock
     /\ t.powerUps = <<NULL, NULL, NULL>>
     /\ t.rubbleFree = state.rubbleFree
     /\ t.rubbleActive = state.rubbleActive
     /\ \A i \in PoolSlots : t.rubbleData[i].isActive = state.rubbleData[i].isActive
     /\ WellFormed(t)

\* C28  In every reachable state each effect's active flag agrees with its
\* magnitude: slowMo.active iff duration > 0, safetyNet.active iff uses > 0
\* with uses in {0, 1}, superSize.active iff count > 0 with count in {0, 1, 2}.
EffectsAgree ==
  LET e == state.activePowerUps
  IN /\ e.slowMo.active <=> e.slowMo.duration > 0
     /\ e.slowMo.duration >= 0
     /\ e.safetyNet.active <=> e.safetyNet.uses > 0
     /\ e.safetyNet.uses \in {0, 1}
     /\ e.superSize.active <=> e.superSize.count > 0
     /\ e.superSize.count \in {0, 1, 2}

\* after a continue: its net spent, its slow-mo run out, and a super-size
\* earned since then used up
EffectsRunOut ==
  /\ state.status = "PLAYING"
  /\ state.continuesUsed = 1
  /\ ~state.activePowerUps.slowMo.active
  /\ ~state.activePowerUps.safetyNet.active
  /\ state.activePowerUps.superSize.active
  /\ state.activePowerUps.superSize.count = 1

\* C29  Whenever the stack is non-empty, score = stack length - 1: a resolved
\* placement adds one block and one point, and a miss caught by the safety
\* net, an activation, pause and resume, backToMenu from Playing or Paused and
\* continueGame add neither.
ScoreIsHeight == Len(state.stack) > 0 => state.score = Len(state.stack) - 1

ScoreStep ==
  LET blocks == Len(state'.stack) - Len(state.stack)
      points == state'.score - state.score
  IN \/ blocks = 0 /\ points = 0
     \/ blocks = 1 /\ points = 1 /\ state' \in Drops(state)
     \/ state' \in Restarts(state)
     \/ state.status = "GAMEOVER" /\ state' = backToMenu(state)

ScoreCountsBlocks == [](ScoreIsHeight) /\ [][ScoreStep]_vars

\* a session that a continue revived, whose net has caught a miss since, and
\* that went on to score
ScoredAfterCatch ==
  /\ state.status \in {"PLAYING", "PAUSED"}
  /\ state.continuesUsed = 1
  /\ state.activePowerUps.safetyNet.uses = 0
  /\ state.score >= 3
  /\ state.score = Len(state.stack) - 1

\* C30  Whenever status is Playing, the stack is non-empty and there is an
\* active block, whatever sequence of startGame, placeBlock, pauseGame,
\* resumeGame, backToMenu, gameOver and continueGame calls came before, reward
\* callbacks that arrive late included.
PlayingHasBlock ==
  state.status = "PLAYING" => Len(state.stack) > 0 /\ state.activeBlock # NoBlock

============================================================================
